---- MODULE Spec2Model ----
(***************************************************************************)
(* Model of src/main.py: a load-test harness that starts num_threads       *)
(* worker threads; each worker (job) creates its logger, resolves an       *)
(* OpenAI client from the environment, runs one streaming chat completion, *)
(* classifies a failure of that call, and logs 'Exiting'.                  *)
(*                                                                         *)
(* Text is modelled as a sequence of strings (characters or longer         *)
(* pieces), so that formatting and parsing are computed, not assumed.      *)
(***************************************************************************)
EXTENDS Integers, Sequences, FiniteSets, TLC

VARIABLES
    env,          \* os.environ: [endpoint, port], each Absent or a text
    fs,           \* [prompts: the prompt files exist, logdir: ./logs exists]
    num_threads,  \* argument of main
    multiport,    \* argument of main
    transport,    \* which server the run talks to: "any" or "plain" (see Server)
    main_pc,      \* position of main: load, create, start, join, returned, raised
    threads,      \* main's list `threads`: the ids of the Thread objects, in order
    main_i,       \* index of the running for-loop of main (into threads)
    starts,       \* id -> number of times Thread.start() was called on it
    wpc,          \* id -> position of the worker thread inside job
    loggers,      \* the logging module's registry: name -> [level, handlers]
    files,        \* the file system under log_folder: file name -> entries written
    logger,       \* id -> the name of job's local `logger` (Absent before it is bound)
    client,       \* id -> job's local `client` (NoClient before it is bound)
    requests,     \* id -> number of streaming chat-completion requests opened
    stream,       \* id -> the events the transport still holds for the open stream
    exc,          \* id -> the exception in flight in the worker (NONE when there is none)
    outcome,      \* id -> how call_llm_stream ended: NONE, "ok", or the exception raised
    output,       \* id -> job's local `output`
    calls,        \* unit harness: the recorded calls of the function under test
    sent          \* id -> the requests the worker has opened, in order

vars == <<env, fs, num_threads, multiport, transport, main_pc, threads, main_i, starts, wpc,
          loggers, files, logger, client, requests, stream, exc, outcome, output, calls, sent>>

mainVars == <<main_pc, threads, main_i, starts>>
inputVars == <<env, fs, num_threads, multiport, transport>>

-----------------------------------------------------------------------------
(* Bounds *)

MaxThreads == 2
MaxId == 101
MaxCalls == 2
MaxIndex == 3

NONE == "None"

\* a text that is not there: os.getenv of an unset variable, an unbound local
Absent == <<NONE>>

Ids == 0 .. (MaxThreads - 1)

-----------------------------------------------------------------------------
(* Decimal text, as Python's str(int), int(str) and format(int, '02d') compute it *)

DigitChars == <<"0", "1", "2", "3", "4", "5", "6", "7", "8", "9">>

IsDigit(c) == \E k \in 1..10 : DigitChars[k] = c

DigitVal(c) == (CHOOSE k \in 1..10 : DigitChars[k] = c) - 1

RECURSIVE NatStr(_)
NatStr(n) == IF n < 10 THEN <<DigitChars[n + 1]>>
             ELSE NatStr(n \div 10) \o <<DigitChars[(n % 10) + 1]>>

\* str(n) / f'{n}'
Str(n) == IF n < 0 THEN <<"-">> \o NatStr(-n) ELSE NatStr(n)

RECURSIVE ZeroPad(_, _)
ZeroPad(s, width) == IF Len(s) >= width THEN s ELSE ZeroPad(<<"0">> \o s, width)

\* f'{n:02d}': sign first, zeros between sign and digits, at least `width` characters
FormatPadded(n, width) ==
    IF n < 0 THEN <<"-">> \o ZeroPad(NatStr(-n), width - 1)
    ELSE ZeroPad(NatStr(n), width)

RECURSIVE StripLeft(_)
StripLeft(s) == IF s # <<>> /\ Head(s) = " " THEN StripLeft(Tail(s)) ELSE s

RECURSIVE StripRight(_)
StripRight(s) == IF s # <<>> /\ s[Len(s)] = " " THEN StripRight(SubSeq(s, 1, Len(s) - 1)) ELSE s

RECURSIVE DigitsValue(_, _)
DigitsValue(s, acc) ==
    IF s = <<>> THEN acc
    ELSE IF Head(s) = "_" THEN DigitsValue(Tail(s), acc)
    ELSE DigitsValue(Tail(s), 10 * acc + DigitVal(Head(s)))

\* the body of an int literal: digits, single underscores only between digits
IsDigitBody(s) ==
    /\ s # <<>>
    /\ \A k \in 1..Len(s) : IsDigit(s[k]) \/ s[k] = "_"
    /\ IsDigit(s[1]) /\ IsDigit(s[Len(s)])
    /\ \A k \in 1..(Len(s) - 1) : ~(s[k] = "_" /\ s[k + 1] = "_")

\* int(s) for a str: [ok |-> TRUE, val] or [ok |-> FALSE, exc |-> "ValueError"]
IntParse(s) ==
    LET t == StripRight(StripLeft(s))
        signed == t # <<>> /\ Head(t) \in {"+", "-"}
        body == IF signed THEN Tail(t) ELSE t
    IN  IF IsDigitBody(body)
        THEN [ok |-> TRUE,
              val |-> IF signed /\ Head(t) = "-" THEN -DigitsValue(body, 0)
                      ELSE DigitsValue(body, 0)]
        ELSE [ok |-> FALSE, exc |-> "ValueError"]

-----------------------------------------------------------------------------
(* process_name and the log file name of job *)

LogFolder == <<"./logs">>

\* a name cut to two digits
ProcessNameTwoDigits(id) == <<"P">> \o FormatPadded(id % 100, 2)

\* one name for every worker
ProcessNameShared(id) == <<"P", "0", "0">>

\* f'P{id:02d}'
ProcessName(id) == <<"P">> \o FormatPadded(id, 2)

\* os.path.join(config.log_folder, f'{process_name}.log')
LogFileName(id) == LogFolder \o <<"/">> \o ProcessName(id) \o <<".log">>

-----------------------------------------------------------------------------
(* get_client *)

EngineValue == "ollama"

\* str.format(port=port) on a template given as pieces; "{port}" is the named field,
\* "{host}" a field that is not supplied (KeyError), "{}" a positional field (IndexError)
RECURSIVE FormatTemplate(_, _)
FormatTemplate(t, port) ==
    IF t = <<>> THEN [ok |-> TRUE, text |-> <<>>]
    ELSE IF Head(t) = "{host}" THEN [ok |-> FALSE, exc |-> "KeyError"]
    ELSE IF Head(t) = "{}" THEN [ok |-> FALSE, exc |-> "IndexError"]
    ELSE LET rest == FormatTemplate(Tail(t), port)
         IN  IF ~rest.ok THEN rest
             ELSE [ok |-> TRUE,
                   text |-> (IF Head(t) = "{port}" THEN port ELSE <<Head(t)>>) \o rest.text]

\* truthiness of an os.getenv result: None and '' are falsy
Truthy(v) == v # Absent /\ v # <<>>

\* the index left out of the port
PortTextNoOffset(p, is_multi_port, index) == Str(p)

\* line 87
PortText(p, is_multi_port, index) == IF is_multi_port THEN Str(p + index) ELSE Str(p)

\* get_client with defaults in place of the two assertions
GetClientWithDefaults(e, is_multi_port, index) ==
    LET endpoint == IF Truthy(e.endpoint) THEN e.endpoint ELSE <<"http://localhost:", "{port}">>
        parsed == IF Truthy(e.port) THEN IntParse(e.port) ELSE [ok |-> TRUE, val |-> 11434]
    IN  IF ~parsed.ok THEN [ok |-> FALSE, exc |-> parsed.exc]
        ELSE LET url == FormatTemplate(endpoint, PortText(parsed.val, is_multi_port, index))
             IN  IF ~url.ok THEN [ok |-> FALSE, exc |-> url.exc]
                 ELSE [ok |-> TRUE,
                       client |-> [base_url |-> url.text, api_key |-> EngineValue]]

\* get_client(engine, is_multi_port, index) under environment e:
\* [ok |-> TRUE, client] or [ok |-> FALSE, exc]
GetClient(e, is_multi_port, index) ==
    IF ~Truthy(e.endpoint) THEN [ok |-> FALSE, exc |-> "AssertionError"]
    ELSE IF ~Truthy(e.port) THEN [ok |-> FALSE, exc |-> "AssertionError"]
    ELSE LET parsed == IntParse(e.port)
         IN  IF ~parsed.ok THEN [ok |-> FALSE, exc |-> parsed.exc]
             ELSE LET url == FormatTemplate(e.endpoint,
                                            PortText(parsed.val, is_multi_port, index))
                  IN  IF ~url.ok THEN [ok |-> FALSE, exc |-> url.exc]
                      ELSE [ok |-> TRUE,
                            client |-> [base_url |-> url.text, api_key |-> EngineValue]]

-----------------------------------------------------------------------------
(* The exception classes job names, with their base classes (openai's hierarchy) *)

Parent ==
    [t \in {"Exception", "OpenAIError", "APIError", "APIStatusError", "APIConnectionError",
            "APITimeoutError", "APIResponseValidationError", "AuthenticationError",
            "RateLimitError", "BadRequestError", "InternalServerError", "NotFoundError",
            "LengthFinishReasonError", "RuntimeError", "IndexError", "AssertionError",
            "ValueError", "KeyError", "FileNotFoundError"} |->
        CASE t = "Exception" -> "BaseException"
          [] t = "OpenAIError" -> "Exception"
          [] t = "APIError" -> "OpenAIError"
          [] t = "LengthFinishReasonError" -> "OpenAIError"
          [] t \in {"APIStatusError", "APIConnectionError", "APIResponseValidationError"}
               -> "APIError"
          [] t = "APITimeoutError" -> "APIConnectionError"
          [] t \in {"AuthenticationError", "RateLimitError", "BadRequestError",
                    "InternalServerError", "NotFoundError"} -> "APIStatusError"
          [] OTHER -> "Exception"]

RECURSIVE IsInstance(_, _)
IsInstance(t, cls) ==
    \/ t = cls
    \/ t \in DOMAIN Parent /\ IsInstance(Parent[t], cls)

\* status_code of an APIStatusError raised for an HTTP response
StatusCode(t) ==
    CASE t = "BadRequestError" -> 400
      [] t = "AuthenticationError" -> 401
      [] t = "NotFoundError" -> 404
      [] t = "RateLimitError" -> 429
      [] t = "InternalServerError" -> 500
      [] OTHER -> 418

\* the except clauses of job, in source order
HandlersWithoutCatchAll ==
    << [cls |-> "AuthenticationError", msg |-> <<"Authentication failed.">>],
       [cls |-> "RateLimitError", msg |-> <<"Rate limit exceeded.">>],
       [cls |-> "BadRequestError", msg |-> <<"Bad request.">>],
       [cls |-> "APIConnectionError",
        msg |-> <<"Failed to connect to the API. Check network connection.">>],
       [cls |-> "InternalServerError", msg |-> <<"Internal server error.">>],
       [cls |-> "APITimeoutError", msg |-> <<"API timed out.">>],
       [cls |-> "APIStatusError", msg |-> <<"API Status Error: Received status ">>],
       [cls |-> "APIError", msg |-> <<"An unexpected error occured in the API.">>] >>

Handlers ==
    << [cls |-> "AuthenticationError", msg |-> <<"Authentication failed.">>],
       [cls |-> "RateLimitError", msg |-> <<"Rate limit exceeded.">>],
       [cls |-> "BadRequestError", msg |-> <<"Bad request.">>],
       [cls |-> "APIConnectionError",
        msg |-> <<"Failed to connect to the API. Check network connection.">>],
       [cls |-> "InternalServerError", msg |-> <<"Internal server error.">>],
       [cls |-> "APITimeoutError", msg |-> <<"API timed out.">>],
       [cls |-> "APIStatusError", msg |-> <<"API Status Error: Received status ">>],
       [cls |-> "APIError", msg |-> <<"An unexpected error occured in the API.">>],
       [cls |-> "Exception", msg |-> <<"An unexpected error occurred.">>] >>

\* the first except clause whose class the raised exception is an instance of; 0 if none
HandlerIndex(t) ==
    IF \E k \in 1..Len(Handlers) : IsInstance(t, Handlers[k].cls)
    THEN CHOOSE k \in 1..Len(Handlers) :
            /\ IsInstance(t, Handlers[k].cls)
            /\ \A m \in 1..(k - 1) : ~IsInstance(t, Handlers[m].cls)
    ELSE 0

\* the message the k-th clause logs for exception type t (line 191 formats e.status_code)
HandlerMessage(k, t) ==
    IF Handlers[k].cls = "APIStatusError"
    THEN Handlers[k].msg \o Str(StatusCode(t)) \o <<".">>
    ELSE Handlers[k].msg

-----------------------------------------------------------------------------
(* logging: a logger has a level and handlers; a record reaches the file of every *)
(* file handler whose level admits it.  The console handler writes to stderr,     *)
(* which is not part of the state.                                                *)

LevelNo(l) == CASE l = "DEBUG" -> 10 [] l = "INFO" -> 20 [] l = "WARNING" -> 30
                [] l = "ERROR" -> 40 [] OTHER -> 0

\* a log record: logger.info(msg) / logger.error(msg) / logger.exception(msg)
Entry(name, level, msg, exc_info) ==
    [logger |-> name, level |-> level, msg |-> msg, exc_info |-> exc_info]

Info(name, msg) == Entry(name, "INFO", msg, NONE)

RECURSIVE HandleAll(_, _, _)
HandleAll(fls, handlers, entry) ==
    IF handlers = <<>> THEN fls
    ELSE LET h == Head(handlers)
             out == IF h.kind = "file" /\ LevelNo(entry.level) >= LevelNo(h.level)
                    THEN [fls EXCEPT ![h.filename] = Append(@, entry)]
                    ELSE fls
         IN  HandleAll(out, Tail(handlers), entry)

\* Logger.log: dropped below the logger's level, else handed to every handler
Emit(fls, lgs, entry) ==
    IF LevelNo(entry.level) >= LevelNo(lgs[entry.logger].level)
    THEN HandleAll(fls, lgs[entry.logger].handlers, entry)
    ELSE fls

RECURSIVE EmitAll(_, _, _)
EmitAll(fls, lgs, entries) ==
    IF entries = <<>> THEN fls
    ELSE EmitAll(Emit(fls, lgs, Head(entries)), lgs, Tail(entries))

\* logging.getLogger(name): the registered logger, created on first use
LookupLogger(lgs, name) ==
    IF name \in DOMAIN lgs THEN lgs[name] ELSE [level |-> "WARNING", handlers |-> <<>>]

\* get_logger(name, filename, format, level=DEBUG): the registry and the files after
\* the call, and the exception it raised (NONE when it returned the logger)
GetLogger(lgs, fls, logdir, name, filename) ==
    LET lg == LookupLogger(lgs, name)
    IN  IF Len(lg.handlers) > 0
        THEN [loggers |-> (name :> lg) @@ lgs, files |-> fls, exc |-> NONE]
        ELSE LET withStream == [level |-> "DEBUG",
                                handlers |-> Append(lg.handlers,
                                                    [kind |-> "stream", level |-> "DEBUG"])]
             IN  IF ~logdir
                 THEN \* RotatingFileHandler cannot open the file
                      [loggers |-> (name :> withStream) @@ lgs, files |-> fls,
                       exc |-> "FileNotFoundError"]
                 ELSE [loggers |->
                          (name :> [withStream EXCEPT !.handlers =
                                       Append(@, [kind |-> "file", level |-> "INFO",
                                                  filename |-> filename])]) @@ lgs,
                       files |-> IF filename \in DOMAIN fls THEN fls
                                 ELSE (filename :> <<>>) @@ fls,
                       exc |-> NONE]

-----------------------------------------------------------------------------
(* call_llm_stream: the request *)

\* class Model: the identifiers, spelled out by character up to the colon
Model ==
    [ qwen3_32b      |-> <<"q", "w", "e", "n", "3", ":", "32b-fp16">>,
      qwen3_14b      |-> <<"q", "w", "e", "n", "3", ":", "14b-fp16">>,
      qwen3_a3b      |-> <<"q", "w", "e", "n", "3", ":", "30b-a3b-fp16">>,
      qwen3_a3b_2507 |-> <<"q", "w", "e", "n", "3", ":", "30b-a3b-instruct-2507-fp16">>,
      gpt_oss_20b    |-> <<"g", "p", "t", "-", "o", "s", "s", ":", "20b">>,
      gpt_oss_120b   |-> <<"g", "p", "t", "-", "o", "s", "s", ":", "120b">>,
      qwen3_32b_cm   |-> <<"q", "w", "e", "n", "3", ":", "32b-fp16", "-cm">>,
      qwen3_14b_cm   |-> <<"q", "w", "e", "n", "3", ":", "14b-fp16", "-cm">>,
      qwen3_a3b_cm   |-> <<"q", "w", "e", "n", "3", ":", "30b-a3b-fp16", "-cm">>,
      qwen3_a3b_2507_cm |->
          <<"q", "w", "e", "n", "3", ":", "30b-a3b-instruct-2507-fp16", "-cm">>,
      gpt_oss_20b_cm  |-> <<"g", "p", "t", "-", "o", "s", "s", ":", "20b", "-cm">>,
      gpt_oss_120b_cm |-> <<"g", "p", "t", "-", "o", "s", "s", ":", "120b", "-cm">> ]

\* str.startswith(prefix), on texts spelled out by character
StartsWith(text, prefix) ==
    /\ Len(text) >= Len(prefix)
    /\ SubSeq(text, 1, Len(prefix)) = prefix

\* the prompt is kept and nothing is appended outside the qwen3 case
UserContentKeepsPrompt(prompt, model, enable_thinking) ==
    IF ~enable_thinking /\ StartsWith(model, <<"q", "w", "e", "n", "3">>)
    THEN prompt \o <<" /no_think">>
    ELSE prompt

\* line 117: (prompt + ' /no_think') if <condition> else '' ; the conditional
\* expression binds weaker than +
UserContent(prompt, model, enable_thinking) ==
    IF ~enable_thinking /\ StartsWith(model, <<"q", "w", "e", "n", "3">>)
    THEN prompt \o <<" /no_think">>
    ELSE <<>>

\* lines 113-119: the `messages` argument
Messages(system_prompt, prompt, model, enable_thinking) ==
    << [role |-> "system", content |-> system_prompt],
       [role |-> "user", content |-> UserContent(prompt, model, enable_thinking)] >>

\* lines 111-122: the arguments of client.chat.completions.stream
Request(model, prompt, system_prompt, temperature, top_p, enable_thinking) ==
    [ model |-> model,
      messages |-> Messages(system_prompt, prompt, model, enable_thinking),
      temperature |-> temperature,
      top_p |-> top_p ]

\* lines 204-205: the content of ./prompts/system.txt and ./prompts/user.txt
SystemPromptFile == <<"system.txt">>
UserPromptFile == <<"user.txt">>

\* lines 207-216: the Config main builds; temperature and top_p are 0.0
Config ==
    [ engine |-> EngineValue, model |-> Model.qwen3_32b_cm,
      system_prompt |-> SystemPromptFile, user_prompt |-> UserPromptFile,
      temperature |-> <<"0", ".", "0">>, top_p |-> <<"0", ".", "0">>,
      log_folder |-> LogFolder ]

-----------------------------------------------------------------------------
(* Inputs: the environment, the file system, the arguments, the transport *)

Endpoints == {Absent, <<>>, <<"http://host:", "{port}", "/v1">>}
Ports == {Absent, <<>>, <<"x">>, <<"9", "9">>}

NoClient == [base_url |-> Absent, api_key |-> NONE]
NoStream == [events |-> <<>>, final |-> NONE]

Event(type, text) == [type |-> type, text |-> text]

\* what the transport can deliver for one request: the events, then the final message
Scripts ==
    { [events |-> <<Event("content.delta", "Hel"), Event("content.delta", "lo")>>,
       final |-> "Hello"],
      [events |-> <<Event("error", "overloaded"), Event("chunk", ""),
                    Event("content.delta", "x")>>,
       final |-> "x"] }

\* what opening the request can raise: one class per except clause of job
OpenRaises == {"AuthenticationError", "RateLimitError", "BadRequestError",
               "APIConnectionError", "InternalServerError", "APITimeoutError",
               "NotFoundError", "APIError", "RuntimeError"}

\* what iterating the stream can raise
StreamRaises == {"APIError"}

\* what get_final_completion() and choices[0] can raise
FinalRaises == {"LengthFinishReasonError"}

\* a server that can show every behaviour above
AnyTransport ==
    [scripts |-> Scripts, open |-> OpenRaises, stream |-> StreamRaises, final |-> FinalRaises]

\* a server with one answer and one refusal: the stream of an error event, an event of
\* another type and a delta, or a rate limit; the failures past the opening as above
PlainTransport ==
    [scripts |-> {s \in Scripts : s.final = "x"}, open |-> {"RateLimitError"},
     stream |-> StreamRaises, final |-> FinalRaises]

\* what the server of this run can do: [scripts, open, stream, final]
Server == IF transport = "plain" THEN PlainTransport ELSE AnyTransport

-----------------------------------------------------------------------------
(* State *)

\* nothing has run yet
StartState ==
    /\ main_pc = "load"
    /\ threads = <<>>
    /\ main_i = 0
    /\ starts = [i \in Ids |-> 0]
    /\ wpc = [i \in Ids |-> "new"]
    /\ loggers = <<>>
    /\ files = <<>>
    /\ logger = [i \in Ids |-> Absent]
    /\ client = [i \in Ids |-> NoClient]
    /\ requests = [i \in Ids |-> 0]
    /\ stream = [i \in Ids |-> NoStream]
    /\ exc = [i \in Ids |-> NONE]
    /\ outcome = [i \in Ids |-> NONE]
    /\ output = [i \in Ids |-> NONE]
    /\ calls = <<>>
    /\ sent = [i \in Ids |-> <<>>]

Init ==
    /\ env \in [endpoint : Endpoints, port : Ports]
    /\ fs \in [prompts : BOOLEAN, logdir : BOOLEAN]
    /\ num_threads \in 0..MaxThreads
    /\ multiport \in BOOLEAN
    /\ transport = "any"
    /\ StartState

\* a join that does not wait
IsAliveNotWaited(i) == FALSE

\* Thread.is_alive(): started and not yet ended
IsAlive(i) == wpc[i] \notin {"new", "created", "returned", "died"}

Finished(i) == wpc[i] \in {"returned", "died"}

-----------------------------------------------------------------------------
(* main *)

\* lines 204-216: load the prompts, build the Config
MainLoad ==
    /\ main_pc = "load"
    /\ main_pc' = IF fs.prompts THEN "create" ELSE "raised"
    /\ UNCHANGED <<inputVars, threads, main_i, starts, wpc, loggers, files, logger, client,
                   requests, stream, exc, outcome, output, calls, sent>>

\* lines 218-221: one Thread object per id in range(num_threads)
MainCreate ==
    /\ main_pc = "create"
    /\ IF main_i < num_threads
       THEN /\ threads' = Append(threads, main_i)
            /\ wpc' = [wpc EXCEPT ![main_i] = "created"]
            /\ main_i' = main_i + 1
            /\ UNCHANGED main_pc
       ELSE /\ main_pc' = "start"
            /\ main_i' = 0
            /\ UNCHANGED <<threads, wpc>>
    /\ UNCHANGED <<inputVars, starts, loggers, files, logger, client, requests, stream, exc,
                   outcome, output, calls, sent>>

\* one worker at a time: a thread is started when the one before it has ended
MainStartSequential ==
    /\ main_pc = "start"
    /\ main_i > 0 => ~IsAlive(threads[main_i])
    /\ IF main_i < Len(threads)
       THEN /\ starts' = [starts EXCEPT ![threads[main_i + 1]] = @ + 1]
            /\ wpc' = [wpc EXCEPT ![threads[main_i + 1]] = "logger"]
            /\ main_i' = main_i + 1
            /\ UNCHANGED main_pc
       ELSE /\ main_pc' = "join"
            /\ main_i' = 0
            /\ UNCHANGED <<starts, wpc>>
    /\ UNCHANGED <<inputVars, threads, loggers, files, logger, client, requests, stream, exc,
                   outcome, output, calls, sent>>

\* lines 223-224: thread.start() for every thread of the list, in order
MainStart ==
    /\ main_pc = "start"
    /\ IF main_i < Len(threads)
       THEN /\ starts' = [starts EXCEPT ![threads[main_i + 1]] = @ + 1]
            /\ wpc' = [wpc EXCEPT ![threads[main_i + 1]] = "logger"]
            /\ main_i' = main_i + 1
            /\ UNCHANGED main_pc
       ELSE /\ main_pc' = "join"
            /\ main_i' = 0
            /\ UNCHANGED <<starts, wpc>>
    /\ UNCHANGED <<inputVars, threads, loggers, files, logger, client, requests, stream, exc,
                   outcome, output, calls, sent>>

\* lines 226-227: thread.join() blocks while the thread is alive
MainJoin ==
    /\ main_pc = "join"
    /\ IF main_i < Len(threads)
       THEN /\ ~IsAlive(threads[main_i + 1])
            /\ main_i' = main_i + 1
            /\ UNCHANGED main_pc
       ELSE /\ main_pc' = "returned"
            /\ UNCHANGED main_i
    /\ UNCHANGED <<inputVars, threads, starts, wpc, loggers, files, logger, client, requests,
                   stream, exc, outcome, output, calls, sent>>

-----------------------------------------------------------------------------
(* job: the worker thread *)

\* lines 159-162
SetupEntries(name, id) ==
    << Info(name, <<"Created logger">>),
       Info(name, <<"Process ID: ">> \o Str(id)),
       Info(name, <<"Config:\n", "model_dump_json">>) >>

\* lines 152-162: name the process, get its logger, log the first entries.
\* get_logger is outside the try statement: what it raises leaves job.
JobGetLogger(i) ==
    /\ wpc[i] = "logger"
    /\ LET name == ProcessName(i)
           got == GetLogger(loggers, files, fs.logdir, name, LogFileName(i))
       IN  /\ loggers' = got.loggers
           /\ IF got.exc = NONE
              THEN /\ logger' = [logger EXCEPT ![i] = name]
                   /\ files' = EmitAll(got.files, got.loggers, SetupEntries(name, i))
                   /\ wpc' = [wpc EXCEPT ![i] = "client"]
                   /\ UNCHANGED exc
              ELSE /\ files' = got.files
                   /\ exc' = [exc EXCEPT ![i] = got.exc]
                   /\ wpc' = [wpc EXCEPT ![i] = "died"]
                   /\ UNCHANGED logger
    /\ UNCHANGED <<inputVars, mainVars, client, requests, stream, outcome, output, calls, sent>>

\* lines 164-165: resolve the client, log it.
\* get_client is outside the try statement: what it raises leaves job.
JobGetClient(i) ==
    /\ wpc[i] = "client"
    /\ LET got == GetClient(env, multiport, i)
       IN  IF got.ok
           THEN /\ client' = [client EXCEPT ![i] = got.client]
                /\ files' = Emit(files, loggers, Info(logger[i], <<"Created client">>))
                /\ wpc' = [wpc EXCEPT ![i] = "call"]
                /\ UNCHANGED exc
           ELSE /\ exc' = [exc EXCEPT ![i] = got.exc]
                /\ wpc' = [wpc EXCEPT ![i] = "died"]
                /\ UNCHANGED <<client, files>>
    /\ UNCHANGED <<inputVars, mainVars, loggers, logger, requests, stream, outcome, output,
                   calls, sent>>

\* the endpoint serves one stream at a time: a worker waits while another streams
CallOpenExclusive(i) ==
    /\ wpc[i] = "call"
    /\ \A j \in Ids \ {i} : wpc[j] # "stream"
    /\ requests' = [requests EXCEPT ![i] = @ + 1]
    /\ sent' = [sent EXCEPT ![i] =
                   Append(@, Request(Config.model, Config.user_prompt, Config.system_prompt,
                                     Config.temperature, Config.top_p, FALSE))]
    /\ \/ \E s \in Server.scripts :
            /\ stream' = [stream EXCEPT ![i] = s]
            /\ wpc' = [wpc EXCEPT ![i] = "stream"]
            /\ UNCHANGED <<exc, outcome>>
       \/ \E e \in Server.open :
            /\ exc' = [exc EXCEPT ![i] = e]
            /\ outcome' = [outcome EXCEPT ![i] = e]
            /\ wpc' = [wpc EXCEPT ![i] = "except"]
            /\ UNCHANGED stream
    /\ UNCHANGED <<inputVars, mainVars, loggers, files, logger, client, output, calls>>

\* lines 168, 111-122: call_llm_stream opens the streaming request, which the
\* transport accepts (the stream is open) or fails (the call raises)
CallOpen(i) ==
    /\ wpc[i] = "call"
    /\ requests' = [requests EXCEPT ![i] = @ + 1]
    /\ sent' = [sent EXCEPT ![i] =
                   Append(@, Request(Config.model, Config.user_prompt, Config.system_prompt,
                                     Config.temperature, Config.top_p, FALSE))]
    /\ \/ \E s \in Server.scripts :
            /\ stream' = [stream EXCEPT ![i] = s]
            /\ wpc' = [wpc EXCEPT ![i] = "stream"]
            /\ UNCHANGED <<exc, outcome>>
       \/ \E e \in Server.open :
            /\ exc' = [exc EXCEPT ![i] = e]
            /\ outcome' = [outcome EXCEPT ![i] = e]
            /\ wpc' = [wpc EXCEPT ![i] = "except"]
            /\ UNCHANGED stream
    /\ UNCHANGED <<inputVars, mainVars, loggers, files, logger, client, output, calls>>

\* lines 124-127: what the loop body logs for one event
EventEntries(name, event) ==
    IF event.type = "error" THEN <<Entry(name, "ERROR", <<"error: ", event.text>>, NONE)>>
    ELSE IF event.type = "content.delta" THEN <<Info(name, <<event.text>>)>>
    ELSE <<>>

\* an error event ends the loop: the events after it are not consumed
StreamEventAbortOnError(i) ==
    /\ wpc[i] = "stream"
    /\ stream[i].events # <<>>
    /\ files' = EmitAll(files, loggers, EventEntries(logger[i], Head(stream[i].events)))
    /\ stream' = [stream EXCEPT ![i].events =
                     IF Head(@).type = "error" THEN <<>> ELSE Tail(@)]
    /\ UNCHANGED <<inputVars, mainVars, wpc, loggers, logger, client, requests, exc, outcome,
                   output, calls, sent>>

\* lines 123-127: the next event of the stream
StreamEvent(i) ==
    /\ wpc[i] = "stream"
    /\ stream[i].events # <<>>
    /\ files' = EmitAll(files, loggers, EventEntries(logger[i], Head(stream[i].events)))
    /\ stream' = [stream EXCEPT ![i].events = Tail(@)]
    /\ UNCHANGED <<inputVars, mainVars, wpc, loggers, logger, client, requests, exc, outcome,
                   output, calls, sent>>

\* line 123: the transport fails while the next event is awaited
StreamRaise(i) ==
    /\ wpc[i] = "stream"
    /\ stream[i].events # <<>>
    /\ \E e \in Server.stream :
            /\ exc' = [exc EXCEPT ![i] = e]
            /\ outcome' = [outcome EXCEPT ![i] = e]
    /\ stream' = [stream EXCEPT ![i] = NoStream]
    /\ wpc' = [wpc EXCEPT ![i] = "except"]
    /\ UNCHANGED <<inputVars, mainVars, loggers, files, logger, client, requests, output,
                   calls, sent>>

\* lines 129-132: the stream is exhausted; the final completion's first choice is
\* returned, or getting it raises
FinalCompletion(i) ==
    /\ wpc[i] = "stream"
    /\ stream[i].events = <<>>
    /\ stream' = [stream EXCEPT ![i] = NoStream]
    /\ \/ /\ output' = [output EXCEPT ![i] = stream[i].final]
          /\ outcome' = [outcome EXCEPT ![i] = "ok"]
          /\ wpc' = [wpc EXCEPT ![i] = "else"]
          /\ UNCHANGED exc
       \/ \E e \in Server.final :
            /\ exc' = [exc EXCEPT ![i] = e]
            /\ outcome' = [outcome EXCEPT ![i] = e]
            /\ wpc' = [wpc EXCEPT ![i] = "except"]
            /\ UNCHANGED output
    /\ UNCHANGED <<inputVars, mainVars, loggers, files, logger, client, requests, calls, sent>>

\* a failed call is tried once more before the worker gives up
JobExceptRetry(i) ==
    /\ wpc[i] = "except"
    /\ LET k == HandlerIndex(exc[i])
       IN  IF k > 0
           THEN /\ files' = Emit(files, loggers,
                                 Entry(logger[i], "ERROR", HandlerMessage(k, exc[i]), exc[i]))
                /\ exc' = [exc EXCEPT ![i] = NONE]
           ELSE UNCHANGED <<files, exc>>
    /\ wpc' = [wpc EXCEPT ![i] = IF requests[i] < 2 THEN "call" ELSE "finally"]
    /\ UNCHANGED <<inputVars, mainVars, loggers, logger, client, requests, stream, outcome,
                   output, calls, sent>>

\* lines 178-195: the first matching except clause logs its message with the
\* traceback and ends the exception; with no matching clause it stays in flight
JobExcept(i) ==
    /\ wpc[i] = "except"
    /\ LET k == HandlerIndex(exc[i])
       IN  IF k > 0
           THEN /\ files' = Emit(files, loggers,
                                 Entry(logger[i], "ERROR", HandlerMessage(k, exc[i]), exc[i]))
                /\ exc' = [exc EXCEPT ![i] = NONE]
           ELSE UNCHANGED <<files, exc>>
    /\ wpc' = [wpc EXCEPT ![i] = "finally"]
    /\ UNCHANGED <<inputVars, mainVars, loggers, logger, client, requests, stream, outcome,
                   output, calls, sent>>

\* the else clause logs the response only
JobElseWithoutMarker(i) ==
    /\ wpc[i] = "else"
    /\ files' = Emit(files, loggers, Info(logger[i], <<"LLM response:\n", output[i]>>))
    /\ wpc' = [wpc EXCEPT ![i] = "finally"]
    /\ UNCHANGED <<inputVars, mainVars, loggers, logger, client, requests, stream, exc,
                   outcome, output, calls, sent>>

\* lines 196-198
JobElse(i) ==
    /\ wpc[i] = "else"
    /\ files' = EmitAll(files, loggers,
                        << Info(logger[i], <<"LLM response:\n", output[i]>>),
                           Info(logger[i], <<"Finished successfully.">>) >>)
    /\ wpc' = [wpc EXCEPT ![i] = "finally"]
    /\ UNCHANGED <<inputVars, mainVars, loggers, logger, client, requests, stream, exc,
                   outcome, output, calls, sent>>

\* 'Exiting' logged at the end of the else clause instead of in a finally clause
FinallyEntriesOnSuccessOnly(name, raised) ==
    IF raised THEN <<>> ELSE <<Info(name, <<"Exiting">>)>>

\* line 200: what the finally clause logs; `raised` tells whether the try body raised
FinallyEntries(name, raised) == <<Info(name, <<"Exiting">>)>>

\* lines 199-200: the finally clause runs on every way out of the try statement;
\* an exception still in flight leaves job after it
JobFinally(i) ==
    /\ wpc[i] = "finally"
    /\ files' = EmitAll(files, loggers, FinallyEntries(logger[i], outcome[i] # "ok"))
    /\ wpc' = [wpc EXCEPT ![i] = IF exc[i] = NONE THEN "returned" ELSE "died"]
    /\ UNCHANGED <<inputVars, mainVars, loggers, logger, client, requests, stream, exc,
                   outcome, output, calls, sent>>

JobStep(i) ==
    \/ JobGetLogger(i)
    \/ JobGetClient(i)
    \/ CallOpen(i)
    \/ StreamEvent(i)
    \/ StreamRaise(i)
    \/ FinalCompletion(i)
    \/ JobExcept(i)
    \/ JobElse(i)
    \/ JobFinally(i)

MainStep == MainLoad \/ MainCreate \/ MainStart \/ MainJoin

Next == MainStep \/ \E i \in Ids : JobStep(i)

Spec == Init /\ [][Next]_vars

\* the steps of job that wait for nothing but the processor
JobLocalStep(i) ==
    \/ JobGetLogger(i)
    \/ JobGetClient(i)
    \/ JobExcept(i)
    \/ JobElse(i)
    \/ JobFinally(i)

\* the steps of job that wait for the server: opening the request, the next event,
\* the end of the stream
JobNetworkStep(i) ==
    \/ CallOpen(i)
    \/ StreamEvent(i)
    \/ StreamRaise(i)
    \/ FinalCompletion(i)

\* thread i is at a step that waits for nothing but the processor
LocalReady(i) == wpc[i] \in {"logger", "client", "except", "else", "finally"}

\* the scheduler runs thread i at such a step: the thread moves on. In a behaviour of
\* Next these are the steps of JobLocalStep(i), and this action is enabled exactly
\* when JobLocalStep(i) is.
JobRuns(i) ==
    /\ LocalReady(i)
    /\ \E p \in {"client", "call", "finally", "returned", "died"} :
          wpc' = [wpc EXCEPT ![i] = p]

\* a run whose prompt files exist: main gets to its threads
InitFair ==
    /\ env \in [endpoint : Endpoints, port : Ports]
    /\ fs \in [prompts : {TRUE}, logdir : BOOLEAN]
    /\ num_threads \in 0..MaxThreads
    /\ multiport \in BOOLEAN
    /\ transport = "plain"
    /\ StartState

\* main and its threads under a fair scheduler: a thread that can run is run. The
\* steps that wait for the server (opening the request, the next event, the end of
\* the stream) are taken when the server answers, which nothing in the program forces.
SpecFair ==
    /\ InitFair
    /\ [][Next]_vars
    /\ WF_vars(MainStep)
    /\ \A i \in Ids : WF_wpc(JobRuns(i))

\* main(num_threads, multiport=False) with the endpoint configured: every worker
\* is given the base port
InitShared ==
    /\ env \in [endpoint : {e \in Endpoints : Truthy(e)}, port : Ports]
    /\ fs \in [prompts : BOOLEAN, logdir : BOOLEAN]
    /\ num_threads \in 0..MaxThreads
    /\ multiport = FALSE
    /\ transport = "plain"
    /\ StartState

SpecShared == InitShared /\ [][Next]_vars

-----------------------------------------------------------------------------
(* Unit harness for get_client: the environment and the mode are drawn once, *)
(* then get_client is called with indexes of the caller's choice.            *)

ProbeEndpoints ==
    {Absent, <<>>, <<"http://host:", "{port}", "/v1">>, <<"{port}">>,
     <<"http://", "{host}", ":", "{port}">>, <<"http://host:11434/v1">>}

ProbePorts ==
    {Absent, <<>>, <<"x">>, <<"8", "x">>, <<"9", "9">>, <<"0", "8">>, <<"-", "2">>,
     <<" ", "8", " ">>, <<"+", "8">>, <<"1", "_", "0">>, <<"8", "0", "8", "0">>}

InitProbe ==
    /\ env \in [endpoint : ProbeEndpoints, port : ProbePorts]
    /\ fs = [prompts |-> TRUE, logdir |-> TRUE]
    /\ num_threads = 0
    /\ multiport \in BOOLEAN
    /\ transport = "any"
    /\ StartState

\* line 164, called alone
ProbeGetClient(i) ==
    /\ Len(calls) < MaxCalls
    /\ calls' = Append(calls, [index |-> i, got |-> GetClient(env, multiport, i)])
    /\ UNCHANGED <<inputVars, mainVars, wpc, loggers, files, logger, client, requests,
                   stream, exc, outcome, output, sent>>

NextProbe == \E i \in 0..MaxIndex : ProbeGetClient(i)

SpecProbe == InitProbe /\ [][NextProbe]_vars

-----------------------------------------------------------------------------
(* Unit harness for the request of call_llm_stream: the arguments are the    *)
(* caller's choice; the request handed to the transport is recorded.         *)

\* `model: str`: identifiers of the Model class and others a caller can pass
RequestModels ==
    { Model.qwen3_32b, Model.qwen3_a3b_2507_cm, Model.gpt_oss_20b, Model.gpt_oss_120b_cm,
      <<"q", "w", "e", "n", "3">>, <<"q", "w", "e", "n">>, <<"q", "w", "e", "n", "2", ":", "7b">>,
      <<"Q", "w", "e", "n", "3", ":", "8b">>, <<"x", "q", "w", "e", "n", "3">>, <<>> }

RequestPrompts == { <<>>, <<"Say hello.">> }
RequestSystemPrompts == { <<>>, <<"You are terse.">> }

InitRequest ==
    /\ env = [endpoint |-> Absent, port |-> Absent]
    /\ fs = [prompts |-> TRUE, logdir |-> TRUE]
    /\ num_threads = 0
    /\ multiport = FALSE
    /\ transport = "any"
    /\ StartState

\* lines 111-122, called alone: the request built from the arguments
ProbeRequest ==
    /\ Len(calls) < MaxCalls
    /\ \E model \in RequestModels, prompt \in RequestPrompts,
          system_prompt \in RequestSystemPrompts, enable_thinking \in BOOLEAN :
            calls' = Append(calls,
                            [ model |-> model, prompt |-> prompt,
                              system_prompt |-> system_prompt,
                              enable_thinking |-> enable_thinking,
                              request |-> Request(model, prompt, system_prompt,
                                                  <<"1", ".", "0">>, <<"0", ".", "9", "5">>,
                                                  enable_thinking) ])
    /\ UNCHANGED <<inputVars, mainVars, wpc, loggers, files, logger, client, requests,
                   stream, exc, outcome, output, sent>>

NextRequest == ProbeRequest

SpecRequest == InitRequest /\ [][NextRequest]_vars

-----------------------------------------------------------------------------
(* Unit harness for get_logger: the log folder exists or not; get_logger is   *)
(* called with names and file names of the caller's choice, in sequence.      *)

LoggerNames == {ProcessName(0), ProcessName(1), <<"worker">>}
LoggerFiles == {LogFileName(0), LogFileName(1), LogFolder \o <<"/", "all.log">>}

InitLogger ==
    /\ env = [endpoint |-> Absent, port |-> Absent]
    /\ fs \in [prompts : {TRUE}, logdir : BOOLEAN]
    /\ num_threads = 0
    /\ multiport = FALSE
    /\ transport = "any"
    /\ StartState

\* lines 21-47, called alone: the registry and the files change as the call leaves
\* them, also when it raises; the record keeps what the call raised and the logger
\* of that name after it
ProbeGetLogger ==
    /\ Len(calls) < MaxCalls
    /\ \E name \in LoggerNames, filename \in LoggerFiles :
          LET got == GetLogger(loggers, files, fs.logdir, name, filename)
          IN  /\ loggers' = got.loggers
              /\ files' = got.files
              /\ calls' = Append(calls, [ name |-> name, filename |-> filename,
                                          exc |-> got.exc, logger |-> got.loggers[name] ])
    /\ UNCHANGED <<inputVars, mainVars, wpc, logger, client, requests, stream, exc, outcome,
                   output, sent>>

NextLogger == ProbeGetLogger

SpecLogger == InitLogger /\ [][NextLogger]_vars

-----------------------------------------------------------------------------
(* Vocabulary of the properties *)

\* what worker i has written: the content of its log file
LogOf(i) == IF LogFileName(i) \in DOMAIN files THEN files[LogFileName(i)] ELSE <<>>

CountMsg(log, m) == Cardinality({k \in 1..Len(log) : log[k].msg = m})

ExitingMsg == <<"Exiting">>
FinishedMsg == <<"Finished successfully.">>

\* the first piece of each failure classification of job
ClassificationHeads ==
    {"Authentication failed.", "Rate limit exceeded.", "Bad request.",
     "Failed to connect to the API. Check network connection.", "Internal server error.",
     "API timed out.", "API Status Error: Received status ",
     "An unexpected error occured in the API.", "An unexpected error occurred."}

\* an entry written by logger.exception with one of job's classifications
IsClassification(entry) ==
    /\ entry.level = "ERROR"
    /\ entry.exc_info # NONE
    /\ entry.msg # <<>>
    /\ entry.msg[1] \in ClassificationHeads

Classifications(log) == {k \in 1..Len(log) : IsClassification(log[k])}

IsResponse(entry) == entry.msg # <<>> /\ entry.msg[1] = "LLM response:\n"

Failed(i) == outcome[i] \notin {NONE, "ok"}

\* the ids main is asked to run
Workers == {i \in Ids : i < num_threads}

EnvMissing == ~Truthy(env.endpoint) \/ ~Truthy(env.port)

\* worker i stopped in get_logger or get_client, before the try statement
DiedInSetup(i) ==
    /\ wpc[i] = "died"
    /\ requests[i] = 0
    /\ outcome[i] = NONE
    /\ \/ logger[i] = Absent /\ exc[i] = "FileNotFoundError"
       \/ logger[i] # Absent /\ client[i] = NoClient
          /\ exc[i] \in {"AssertionError", "ValueError", "KeyError", "IndexError"}

-----------------------------------------------------------------------------
(* C1 *)

\* main has made one Thread per id of 0..num_threads-1, in order, and started each once
StartedExactlyOnce ==
    /\ threads = [k \in 1..num_threads |-> k - 1]
    /\ \A i \in Ids : starts[i] = IF i \in Workers THEN 1 ELSE 0

-----------------------------------------------------------------------------
(* C2 *)

-----------------------------------------------------------------------------
(* C3 *)

ExitingWellPlaced(log) ==
    LET exits == CountMsg(log, ExitingMsg)
    IN  /\ exits <= 1
        /\ exits = 1 => log[Len(log)].msg = ExitingMsg

-----------------------------------------------------------------------------
(* C4 *)

\* everything worker j owns
WorkerView(j) ==
    <<wpc[j], logger[j], client[j], requests[j], sent[j], stream[j], exc[j], outcome[j],
      output[j], LogOf(j)>>

C4_State ==
    \* main raises only while loading the prompts, before any thread exists
    /\ main_pc = "raised" => threads = <<>> /\ ~fs.prompts
    \* after a run in which some streaming call failed, every worker has returned
    \* with 'Exiting' as its last entry
    /\ main_pc = "returned" /\ (\E i \in Workers : Failed(i)) =>
          \A j \in Workers :
              /\ wpc[j] = "returned"
              /\ LogOf(j) # <<>>
              /\ LogOf(j)[Len(LogOf(j))].msg = ExitingMsg

\* a step of a worker whose streaming call has failed (the raise, the except clause,
\* the finally clause) changes nothing of main and nothing of any other worker
C4_Step ==
    \A i \in Ids :
        wpc'[i] # wpc[i] /\ Failed(i)' =>
            /\ UNCHANGED mainVars
            /\ \A j \in Ids \ {i} : WorkerView(j)' = WorkerView(j)

\* C4: a failure of the streaming call of worker i stays in worker i: it does not
\* reach main, changes neither the state nor the log nor the outcome of another
\* worker, every other worker reaches its own 'Exiting', and main returns normally
\* after the join.
C4_FailureIsolated == []C4_State /\ [][C4_Step]_vars

\* main has returned from a run in which worker 0 failed and worker 1 succeeded,
\* and worker 1's log holds no classification
C4_Witness ==
    /\ main_pc = "returned"
    /\ outcome[0] = "AuthenticationError"
    /\ outcome[1] = "ok"
    /\ wpc[1] = "returned"
    /\ Classifications(LogOf(1)) = {}
    /\ CountMsg(LogOf(1), FinishedMsg) = 1

-----------------------------------------------------------------------------
(* C5 *)

\* C5: a worker whose streaming call raised logs exactly one classification, then
\* 'Exiting', logs neither the response nor 'Finished successfully.', and returns
\* normally, whatever was raised.
C5_OneClassificationThenExiting ==
    \A i \in Ids :
        Failed(i) =>
            LET log == LogOf(i)
            IN  /\ CountMsg(log, FinishedMsg) = 0
                /\ \A k \in 1..Len(log) : ~IsResponse(log[k])
                /\ Cardinality(Classifications(log)) <= 1
                /\ Finished(i) =>
                      /\ wpc[i] = "returned"
                      /\ exc[i] = NONE
                      /\ Cardinality(Classifications(log)) = 1
                      /\ Len(log) >= 2
                      /\ log[Len(log)].msg = ExitingMsg
                      /\ IsClassification(log[Len(log) - 1])
                      /\ log[Len(log) - 1].exc_info = outcome[i]

\* a worker that met a rate limit has logged that classification and 'Exiting'
C5_Witness ==
    \E i \in Ids :
        /\ outcome[i] = "RateLimitError"
        /\ wpc[i] = "returned"
        /\ LogOf(i)[Len(LogOf(i)) - 1].msg = <<"Rate limit exceeded.">>
        /\ LogOf(i)[Len(LogOf(i))].msg = ExitingMsg

-----------------------------------------------------------------------------
(* C6 *)

\* the classification each failure kind is to be logged under
KindMessage(t) ==
    CASE t = "AuthenticationError" -> <<"Authentication failed.">>
      [] t = "RateLimitError" -> <<"Rate limit exceeded.">>
      [] t = "BadRequestError" -> <<"Bad request.">>
      [] t = "APIConnectionError" ->
            <<"Failed to connect to the API. Check network connection.">>
      [] t = "InternalServerError" -> <<"Internal server error.">>
      [] t = "APITimeoutError" -> <<"API timed out.">>
      [] t = "NotFoundError" -> <<"API Status Error: Received status ", "4", "0", "4", ".">>
      [] t = "APIError" -> <<"An unexpected error occured in the API.">>
      [] OTHER -> <<"An unexpected error occurred.">>

\* C6: every failure kind is logged under its own classification; no kind is taken
\* by the except clause of another kind.
C6_EachKindOwnBranch ==
    \A i \in Ids :
        Failed(i) /\ wpc[i] \in {"finally", "returned"} =>
            \E k \in Classifications(LogOf(i)) : LogOf(i)[k].msg = KindMessage(outcome[i])

-----------------------------------------------------------------------------
(* C7 *)

\* C7: with <ENGINE>_ENDPOINT or <ENGINE>_PORT absent or empty, no worker ever gets a
\* client or opens a streaming request.
C7_NoRequestWithoutEnv ==
    EnvMissing =>
        \A i \in Ids :
            /\ requests[i] = 0
            /\ client[i] = NoClient
            /\ wpc[i] \in {"new", "created", "logger", "client", "died"}

\* with the port variable unset, a worker has been stopped by get_client's assertion
C7_Witness ==
    /\ env.port = Absent
    /\ Truthy(env.endpoint)
    /\ \E i \in Ids :
          /\ wpc[i] = "died"
          /\ exc[i] = "AssertionError"
          /\ logger[i] # Absent
          /\ requests[i] = 0

-----------------------------------------------------------------------------
(* C8 *)

EnvInvalid == EnvMissing \/ ~IntParse(env.port).ok

\* C8: a missing or invalid environment configuration is surfaced by main itself:
\* main does not complete normally.
C8_FatalAtStartup == EnvInvalid /\ num_threads >= 1 => main_pc # "returned"

-----------------------------------------------------------------------------
(* C9 *)

HasPortField(t) == \E k \in 1..Len(t) : t[k] = "{port}"

\* the text that stands in the URL where the template has its port field
UrlPort(t, url) ==
    LET at == CHOOSE k \in 1..Len(t) : t[k] = "{port}"
    IN  SubSeq(url, at, Len(url) - (Len(t) - at))

\* C9: get_client binds the client to port p + index with is_multi_port, to port p
\* without; without it every call of one run yields the same client.
C9_PortOffset ==
    /\ \A k \in 1..Len(calls) :
          LET c == calls[k]
              p == IntParse(env.port)
          IN  c.got.ok =>
                /\ p.ok
                /\ HasPortField(env.endpoint) =>
                      IntParse(UrlPort(env.endpoint, c.got.client.base_url)) =
                          [ok |-> TRUE, val |-> IF multiport THEN p.val + c.index ELSE p.val]
                /\ ~HasPortField(env.endpoint) => c.got.client.base_url = env.endpoint
    /\ ~multiport => \A k, m \in 1..Len(calls) : calls[k].got = calls[m].got

\* base port 99, index 1, multiport: the client is bound to port 100
C9_Witness ==
    /\ multiport
    /\ env.port = <<"9", "9">>
    /\ \E k \in 1..Len(calls) :
          /\ calls[k].index = 1
          /\ calls[k].got.ok
          /\ calls[k].got.client.base_url = <<"http://host:", "1", "0", "0", "/v1">>

-----------------------------------------------------------------------------
(* C10 *)

\* the files the handlers of worker i's logger write to
FileHandlerNames(i) ==
    LET hs == loggers[logger[i]].handlers
    IN  {hs[k].filename : k \in {n \in 1..Len(hs) : hs[n].kind = "file"}}

\* 'P', the id in two digits at least, '.log', under the log folder
WellFormedFileName(f, id) ==
    /\ Len(f) >= 6
    /\ Len(f) = 6 <=> id < 100
    /\ f[1] = "./logs" /\ f[2] = "/" /\ f[3] = "P" /\ f[Len(f)] = ".log"
    /\ IntParse(SubSeq(f, 4, Len(f) - 1)) = [ok |-> TRUE, val |-> id]

\* C10: the thread ids are 0..num_threads-1; the loggers and log files of two workers
\* differ and each file has one writer; the name is 'P', the id zero-padded to two
\* digits, '.log', which no other id shares; with multiport the URLs differ as well.
C10_DistinctNamesAndPorts ==
    /\ \A k \in 1..Len(threads) : threads[k] = k - 1
    /\ Len(threads) <= num_threads
    /\ main_pc \in {"start", "join", "returned"} => Len(threads) = num_threads
    /\ \A i \in Ids :
          logger[i] # Absent =>
              LET f == LogFileName(i)
              IN  /\ f \in DOMAIN files
                  /\ FileHandlerNames(i) = {f}
                  /\ WellFormedFileName(f, i)
    /\ \A i, j \in Ids :
          i # j /\ logger[i] # Absent /\ logger[j] # Absent =>
              /\ logger[i] # logger[j]
              /\ FileHandlerNames(i) \cap FileHandlerNames(j) = {}
    /\ \A f \in DOMAIN files :
          \A k \in 1..Len(files[f]) : files[f][k].logger = files[f][1].logger
    /\ \A i, j \in Ids :
          i # j /\ multiport /\ client[i] # NoClient /\ client[j] # NoClient =>
              client[i].base_url # client[j].base_url
    \* as main hands out the ids: the name of an id is shared by no id up to MaxId
    /\ main_pc = "create" =>
          \A i \in 0..MaxId :
              /\ WellFormedFileName(LogFileName(i), i)
              /\ \A k \in 1..Len(threads) :
                    threads[k] # i => LogFileName(threads[k]) # LogFileName(i)

\* two workers of a multiport run, each with its logger, its file and its client
C10_Witness ==
    /\ multiport
    /\ num_threads = 2
    /\ logger[0] = <<"P", "0", "0">>
    /\ logger[1] = <<"P", "0", "1">>
    /\ client[0].base_url = <<"http://host:", "9", "9", "/v1">>
    /\ client[1].base_url = <<"http://host:", "1", "0", "0", "/v1">>
    /\ Len(LogOf(0)) > 0 /\ Len(LogOf(1)) > 0

-----------------------------------------------------------------------------
\* the five characters q, w, e, n, 3 open the identifier
HasQwen3Prefix(model) ==
    /\ Len(model) >= 5
    /\ model[1] = "q" /\ model[2] = "w" /\ model[3] = "e" /\ model[4] = "n" /\ model[5] = "3"

\* C11: the request of call_llm_stream carries exactly two messages: the system
\* message with system_prompt verbatim, and the user message, which is
\* prompt + ' /no_think' when enable_thinking is false and the model identifier
\* starts with 'qwen3', and the empty string in every other case
C11_UserMessage ==
    \A k \in 1..Len(calls) :
        LET c == calls[k]
            m == c.request.messages
        IN  /\ Len(m) = 2
            /\ m[1] = [role |-> "system", content |-> c.system_prompt]
            /\ m[2].role = "user"
            /\ IF ~c.enable_thinking /\ HasQwen3Prefix(c.model)
               THEN m[2].content = c.prompt \o <<" /no_think">>
               ELSE m[2].content = <<>>

\* one call with a qwen3 model and thinking off, whose prompt is sent with the suffix,
\* and one call with a gpt-oss model, whose non-empty prompt is dropped
C11_Witness ==
    /\ Len(calls) = 2
    /\ calls[1].model = Model.qwen3_32b /\ ~calls[1].enable_thinking
    /\ calls[1].prompt = <<"Say hello.">>
    /\ calls[1].request.messages[2].content = <<"Say hello.", " /no_think">>
    /\ calls[2].model = Model.gpt_oss_20b /\ calls[2].prompt = <<"Say hello.">>
    /\ calls[2].request.messages[2].content = <<>>

-----------------------------------------------------------------------------
\* the entries a sequence of events is to leave in the log of `name`, in order
RECURSIVE ExpectedEntries(_, _)
ExpectedEntries(name, events) ==
    IF events = <<>> THEN <<>>
    ELSE LET e == Head(events)
             own == IF e.type = "error"
                    THEN << [logger |-> name, level |-> "ERROR",
                             msg |-> <<"error: ", e.text>>, exc_info |-> NONE] >>
                    ELSE IF e.type = "content.delta"
                    THEN << [logger |-> name, level |-> "INFO",
                             msg |-> <<e.text>>, exc_info |-> NONE] >>
                    ELSE <<>>
         IN  own \o ExpectedEntries(name, Tail(events))

\* the script the transport is delivering: scripts differ in their final message
ScriptOf(final) == CHOOSE s \in Scripts : s.final = final

\* what worker i has logged since 'Created client', its fourth entry
StreamLog(i) == LET log == LogOf(i) IN SubSeq(log, 5, Len(log))

\* C12 (state): while a worker consumes its stream, the events still to come are a suffix of
\* what the transport delivers, and the log holds, in the order of the events consumed,
\* one ERROR entry per error event, one INFO entry with the text per content.delta
\* event and nothing for other events; an error event does not end the consumption;
\* when the final completion has been taken every event has been consumed
C12_State ==
    \A i \in Ids :
        /\ wpc[i] = "stream" =>
              LET all == ScriptOf(stream[i].final).events
                  left == Len(stream[i].events)
                  done == Len(all) - left
              IN  /\ done >= 0
                  /\ stream[i].events = SubSeq(all, done + 1, Len(all))
                  /\ LogOf(i)[4].msg = <<"Created client">>
                  /\ StreamLog(i) = ExpectedEntries(ProcessName(i), SubSeq(all, 1, done))
        /\ wpc[i] = "else" =>
              StreamLog(i) = ExpectedEntries(ProcessName(i), ScriptOf(output[i]).events)

\* C12: in every state of every run the log of a worker holds one ERROR entry per
\* error event and one INFO entry per content.delta event consumed, in the order of
\* the events, nothing for other events, and an error event does not end the stream
C12_EventsInOrder == []C12_State

\* a stream of an error event, an event of another type and a content delta has been
\* consumed to its end: the log holds the error entry, then the delta
C12_Witness ==
    \E i \in Ids :
        /\ wpc[i] = "else"
        /\ output[i] = "x"
        /\ StreamLog(i) =
              << [logger |-> ProcessName(i), level |-> "ERROR",
                  msg |-> <<"error: ", "overloaded">>, exc_info |-> NONE],
                 [logger |-> ProcessName(i), level |-> "INFO",
                  msg |-> <<"x">>, exc_info |-> NONE] >>

-----------------------------------------------------------------------------
\* worker i has logged the success marker / a failure classification
LoggedSuccess(i) == CountMsg(LogOf(i), FinishedMsg) > 0
LoggedFailure(i) == Classifications(LogOf(i)) # {}

C13_State ==
    \A i \in Ids :
        LET log == LogOf(i)
            name == ProcessName(i)
            fin == CountMsg(log, FinishedMsg)
            cls == Cardinality(Classifications(log))
        IN  /\ ~(fin > 0 /\ cls > 0)
            /\ Finished(i) /\ requests[i] > 0 => fin + cls = 1
            /\ Finished(i) /\ requests[i] = 0 => fin + cls = 0
            /\ Finished(i) /\ outcome[i] = "ok" =>
                  /\ cls = 0
                  /\ SubSeq(log, 5, Len(log)) =
                        ExpectedEntries(name, ScriptOf(output[i]).events)
                        \o << [logger |-> name, level |-> "INFO",
                               msg |-> <<"LLM response:\n", output[i]>>, exc_info |-> NONE],
                              [logger |-> name, level |-> "INFO",
                               msg |-> FinishedMsg, exc_info |-> NONE],
                              [logger |-> name, level |-> "INFO",
                               msg |-> ExitingMsg, exc_info |-> NONE] >>

-----------------------------------------------------------------------------
RECURSIVE SumOver(_, _)
SumOver(f, ids) ==
    IF ids = {} THEN 0
    ELSE LET i == CHOOSE x \in ids : TRUE IN f[i] + SumOver(f, ids \ {i})

\* C14 (state): no worker opens a second streaming request, whether its first one succeeded,
\* failed or is still open; a thread that was not started opens none; the requests of a
\* run number at most num_threads
C14_State ==
    /\ \A i \in Ids :
          /\ requests[i] <= 1
          /\ Len(sent[i]) = requests[i]
          /\ i \notin Workers => requests[i] = 0
          /\ Failed(i) => requests[i] = 1
    /\ SumOver(requests, Ids) <= num_threads

\* C14: in every state of every run each worker has opened at most one streaming
\* request, a failed worker exactly one, and the run at most num_threads: no retry
C14_NoRetry == []C14_State

\* every worker of a run of at least two has opened its request, one has failed and
\* has ended, and the requests number exactly num_threads
C14_Witness ==
    /\ num_threads >= 2
    /\ \A i \in Workers : requests[i] = 1
    /\ \E i \in Workers : Failed(i) /\ wpc[i] = "returned"
    /\ SumOver(requests, Ids) = num_threads

-----------------------------------------------------------------------------
\* C15: with multiport false every client is bound to the same URL, and still whether
\* a worker can take a step is a function of that worker's own position (it can,
\* from its start to its end, whatever the others do); the only step of the program
\* that waits for a thread is main's join, which waits for the thread it joins
C15_NoWaitBetweenWorkers ==
    /\ \A i \in Ids :
          /\ (ENABLED JobLocalStep(i)) <=> LocalReady(i)
          /\ (ENABLED JobNetworkStep(i)) <=> wpc[i] \in {"call", "stream"}
          /\ IsAlive(i) <=> LocalReady(i) \/ wpc[i] \in {"call", "stream"}
    /\ \A i, j \in Ids :
          client[i] # NoClient /\ client[j] # NoClient => client[i] = client[j]
    /\ (ENABLED MainStep) <=>
          \/ main_pc \in {"load", "create", "start"}
          \/ /\ main_pc = "join"
             /\ main_i < Len(threads) => wpc[threads[main_i + 1]] \in {"returned", "died"}

\* two workers bound to the same URL are inside their streaming call at once
C15_Witness ==
    \E i, j \in Ids :
        /\ i # j
        /\ wpc[i] = "stream" /\ wpc[j] = "stream"
        /\ client[i] = client[j]
        /\ client[i].base_url = <<"http://host:", "9", "9", "/v1">>

-----------------------------------------------------------------------------
\* the state of worker i in the worker state machine. A call that has ended is still
\* Streaming until its success or failure entry is logged; a thread that ended before
\* the try statement stays in the state it had reached.
WorkerState(i) ==
    CASE wpc[i] \in {"new", "created", "logger"} -> "Init"
      [] wpc[i] = "client" -> "LoggerReady"
      [] wpc[i] = "call" -> "ClientReady"
      [] wpc[i] \in {"stream", "except", "else"} -> "Streaming"
      [] wpc[i] = "finally" -> IF outcome[i] = "ok" THEN "Succeeded" ELSE "Failed"
      [] wpc[i] = "returned" -> "Exited"
      [] OTHER -> IF logger[i] = Absent THEN "Init"
                  ELSE IF client[i] = NoClient THEN "LoggerReady"
                  ELSE "Exited"

Rank(state) ==
    CASE state = "Init" -> 0
      [] state = "LoggerReady" -> 1
      [] state = "ClientReady" -> 2
      [] state = "Streaming" -> 3
      [] state \in {"Succeeded", "Failed"} -> 4
      [] OTHER -> 5

C16_State ==
    \A i \in Ids :
        LET log == LogOf(i)
            success == CountMsg(log, FinishedMsg) > 0
            failure == Classifications(log) # {}
            state == WorkerState(i)
        IN  /\ client[i] # NoClient => logger[i] # Absent
            /\ requests[i] > 0 => client[i] # NoClient
            /\ success \/ failure => outcome[i] # NONE /\ stream[i] = NoStream
            /\ success <=> outcome[i] = "ok" /\ Rank(state) >= 4
            /\ failure <=> Failed(i) /\ Rank(state) >= 4
            /\ CountMsg(log, ExitingMsg) > 0 <=> state = "Exited"
            /\ Finished(i) =>
                  \/ state = "Exited"
                  \/ state \in {"Init", "LoggerReady"} /\ DiedInSetup(i)

C16_Step ==
    \A i \in Ids :
        \/ WorkerState(i)' = WorkerState(i)
        \/ Rank(WorkerState(i))' = Rank(WorkerState(i)) + 1

-----------------------------------------------------------------------------
\* C17: main has made all num_threads Thread objects before it starts the first, and
\* has started them all before it joins the first; while it starts them, the next
\* start is enabled whatever the threads already started are doing, and none of them
\* has been waited for
C17_UnboundedFanOut ==
    /\ main_pc \in {"start", "join", "returned"} =>
          threads = [k \in 1..num_threads |-> k - 1]
    /\ main_pc = "start" =>
          /\ ENABLED MainStart
          /\ \A k \in 1..Len(threads) : starts[threads[k]] = IF k <= main_i THEN 1 ELSE 0
    /\ main_pc \in {"join", "returned"} => \A i \in Workers : starts[i] = 1
    /\ main_pc \in {"load", "create"} => \A i \in Ids : starts[i] = 0

\* every worker of the largest run is inside its streaming call at the same time
C17_Witness ==
    /\ num_threads = MaxThreads
    /\ \A i \in Ids : wpc[i] = "stream" /\ requests[i] = 1

-----------------------------------------------------------------------------
\* worker i is in its streaming call: about to open the request, or consuming the stream
InCall(i) == wpc[i] \in {"call", "stream"}

\* the streaming call of worker i has returned or raised, or the thread ended before it
CallOver(i) == outcome[i] # NONE \/ Finished(i)

AllCallsOver == \A i \in Workers : CallOver(i)

C18_State ==
    /\ main_pc = "returned" => \A i \in Workers : Finished(i)
    /\ \A i \in Ids :
          InCall(i) => main_pc # "returned" /\ CountMsg(LogOf(i), ExitingMsg) = 0

\* a call that is over is never open again, and main does not un-return; the steps
\* the scheduler is fair to are the local steps of job
C18_Step ==
    /\ \A i \in Ids : CallOver(i) => CallOver(i)' /\ ~InCall(i)'
    /\ \A i \in Ids : <<JobRuns(i)>>_wpc <=> JobLocalStep(i)
    /\ main_pc = "returned" => main_pc' = "returned"

\* C18: in a run whose prompts load, under fair scheduling: (1) once the streaming
\* call of every worker has ended, main eventually returns; (2) main has returned only
\* when every worker has ended: as long as the streaming call of a worker is open that
\* worker has not logged 'Exiting' and main has not returned, so a call that never ends
\* keeps both from ever happening; (3) a worker whose own call has ended does return,
\* whatever the calls of the others do
C18_MainEndsWithWorkers ==
    /\ AllCallsOver ~> (main_pc = "returned")
    /\ []C18_State
    /\ [][C18_Step]_vars
    /\ \A j \in Ids : (j \in Workers /\ outcome[j] # NONE) ~> (wpc[j] = "returned")

\* the streaming call of one worker is still open while another worker has logged
\* 'Exiting' and returned, and main waits in join
C18_Witness ==
    \E i, j \in Ids :
        /\ wpc[i] = "stream"
        /\ wpc[j] = "returned"
        /\ CountMsg(LogOf(j), ExitingMsg) = 1
        /\ CountMsg(LogOf(i), ExitingMsg) = 0
        /\ main_pc = "join"

-----------------------------------------------------------------------------
\* the first call of get_logger with the name of call k
FirstCall(k) == CHOOSE m \in 1..k : calls[m].name = calls[k].name /\
                                      \A n \in 1..(m - 1) : calls[n].name # calls[k].name

\* C19: after every call of get_logger the logger of that name has exactly two
\* handlers, a console handler and a file handler; a call after the first with the
\* same name returns that logger and changes nothing: handlers, level and file are
\* those the first call left
C19_TwoHandlersIdempotent ==
    \A k \in 1..Len(calls) :
        LET c == calls[k]
            first == calls[FirstCall(k)]
        IN  /\ Len(c.logger.handlers) = 2
            /\ c.logger.handlers[1].kind = "stream"
            /\ c.logger.handlers[2].kind = "file"
            /\ c.logger.handlers[2].filename = first.filename
            /\ c.logger = first.logger
            /\ loggers[c.name] = first.logger
            /\ FirstCall(k) < k => c.exc = NONE

====
